---- MODULE Spec2Model ----
(***************************************************************************)
(* mkdocs-sysmlv2: the SysML v2 graph model (model.py), the line-oriented  *)
(* text parser that fills it (parser.py) and the column renderer that      *)
(* draws it (renderer.py).                                                 *)
(*                                                                         *)
(* Text is modelled character by character: a Python str is a sequence of  *)
(* one-character strings, so that stripping, tokenizing, cleaning and the  *)
(* regular expressions are computed as the code computes them.  An         *)
(* Optional[str] is <<>> for None and <<s>> for the string s.              *)
(***************************************************************************)
EXTENDS Integers, Sequences, FiniteSets, TLC

(* ---------------------------------------------------------------------- *)
(* Bounds of the exploration                                               *)
(* ---------------------------------------------------------------------- *)

\* Longest input text given to parse, in physical lines.
MaxLines == 3

\* Most calls made directly on a SysMLModel by a client.
MaxCalls == 3

(* ---------------------------------------------------------------------- *)
(* Python str and list helpers                                             *)
(* ---------------------------------------------------------------------- *)

None == << >>

Some(s) == << s >>

\* Python truthiness of an Optional[str]: None and "" are falsy.
Truthy(opt) == opt # None /\ opt[1] # << >>

UpperCase == <<"A","B","C","D","E","F","G","H","I","J","K","L","M",
               "N","O","P","Q","R","S","T","U","V","W","X","Y","Z">>

LowerCase == <<"a","b","c","d","e","f","g","h","i","j","k","l","m",
               "n","o","p","q","r","s","t","u","v","w","x","y","z">>

Digits == {"0","1","2","3","4","5","6","7","8","9"}

\* str.isspace over the characters a line can hold (splitlines has taken
\* the line breaks).
Whitespace == {" "}

\* The regular expressions' \w.
WordChars == {UpperCase[i] : i \in 1..26} \cup {LowerCase[i] : i \in 1..26}
             \cup Digits \cup {"_"}

LowerChar(c) ==
    IF \E i \in 1..26 : UpperCase[i] = c
    THEN LowerCase[CHOOSE i \in 1..26 : UpperCase[i] = c]
    ELSE c

\* str.lower
lower(s) == [i \in 1..Len(s) |-> LowerChar(s[i])]

\* s[from:] (from counted from 1)
Drop(s, from) == SubSeq(s, from, Len(s))

\* Whether pat occurs in s at position p.
MatchAt(s, p, pat) ==
    /\ p >= 1
    /\ p + Len(pat) - 1 <= Len(s)
    /\ \A i \in 1..Len(pat) : s[p + i - 1] = pat[i]

\* The same, ignoring case (re.IGNORECASE on a literal in lower case).
MatchAtCI(s, p, pat) ==
    /\ p >= 1
    /\ p + Len(pat) - 1 <= Len(s)
    /\ \A i \in 1..Len(pat) : LowerChar(s[p + i - 1]) = pat[i]

\* str.startswith
startswith(s, pat) == MatchAt(s, 1, pat)

\* str.find: the first position of pat in s at or after p, 0 when none.
Find(s, pat, p) ==
    LET hits == {i \in p..(Len(s) - Len(pat) + 1) : MatchAt(s, i, pat)}
    IN  IF hits = {} THEN 0 ELSE CHOOSE i \in hits : \A j \in hits : i <= j

\* str.count of a single character
count(s, c) == Cardinality({i \in 1..Len(s) : s[i] = c})

\* str.strip(chars)
strip(s, chars) ==
    LET keep == {i \in 1..Len(s) : s[i] \notin chars}
    IN  IF keep = {} THEN << >>
        ELSE SubSeq(s, CHOOSE i \in keep : \A j \in keep : i <= j,
                       CHOOSE i \in keep : \A j \in keep : i >= j)

\* The end (exclusive) of the longest run of characters of `chars` in s
\* starting at p: a greedy character class [chars]*.
SpanIn(s, p, chars) ==
    LET stops == {i \in p..Len(s) : s[i] \notin chars}
    IN  IF stops = {} THEN Len(s) + 1
        ELSE CHOOSE i \in stops : \A j \in stops : i <= j

\* The same for a negated class [^chars]*.
SpanNotIn(s, p, chars) ==
    LET stops == {i \in p..Len(s) : s[i] \in chars}
    IN  IF stops = {} THEN Len(s) + 1
        ELSE CHOOSE i \in stops : \A j \in stops : i <= j

Contains(seq, x) == \E i \in 1..Len(seq) : seq[i] = x

\* list(dict.fromkeys(seq)): the first occurrence of each entry, in order.
dict_fromkeys(seq) ==
    LET first == {i \in 1..Len(seq) : \A j \in 1..(i - 1) : seq[j] # seq[i]}
        F[i \in 0..Len(seq)] ==
            IF i = 0 THEN << >>
            ELSE IF i \in first THEN Append(F[i - 1], seq[i]) ELSE F[i - 1]
    IN  F[Len(seq)]

(* ---------------------------------------------------------------------- *)
(* model.py: SysMLElement, SysMLRelation, SysMLModel                       *)
(* ---------------------------------------------------------------------- *)

KindExternal == <<"e","x","t","e","r","n","a","l">>

KindPackage == <<"p","a","c","k","a","g","e">>

\* SysMLElement(...) with the dataclass's field defaults.
SysMLElement(name, kind, flavor, package, type_of, specializes, modifiers, external) ==
    [name |-> name, kind |-> kind, flavor |-> flavor, package |-> package,
     type_of |-> type_of, specializes |-> specializes,
     modifiers |-> modifiers, external |-> external]

SysMLRelation(source, target, relation, label) ==
    [source |-> source, target |-> target, relation |-> relation, label |-> label]

\* SysMLModel.__init__.  _node_index maps a name to the position in nodes of
\* the element object it holds; _package_index likewise for packages.
SysMLModel(source_path) ==
    [source_path |-> source_path, nodes |-> << >>, relations |-> << >>,
     packages |-> << >>, node_index |-> << >>, package_index |-> << >>]

add_package(m, name) ==
    IF name \in DOMAIN m.package_index
    THEN m
    ELSE [m EXCEPT !.packages = Append(@, [name |-> name, description |-> None]),
                   !.package_index = (name :> (Len(m.packages) + 1)) @@ @]

\* merge_node with the external flag kept once set (or for and).
merge_node_ExternalOr(existing, node) ==
    [existing EXCEPT
        !.package = IF ~Truthy(existing.package) /\ Truthy(node.package)
                    THEN node.package ELSE @,
        !.specializes = IF node.specializes # << >>
                        THEN dict_fromkeys(existing.specializes \o node.specializes)
                        ELSE @,
        !.type_of = IF node.type_of # << >>
                    THEN dict_fromkeys(existing.type_of \o node.type_of)
                    ELSE @,
        !.modifiers = IF node.modifiers # << >>
                      THEN dict_fromkeys(existing.modifiers \o node.modifiers)
                      ELSE @,
        !.external = existing.external \/ node.external]

\* merge_node with the package taken from every incoming record that has one.
merge_node_PackageOverwritten(existing, node) ==
    [existing EXCEPT
        !.package = IF Truthy(node.package) THEN node.package ELSE @,
        !.specializes = IF node.specializes # << >>
                        THEN dict_fromkeys(existing.specializes \o node.specializes)
                        ELSE @,
        !.type_of = IF node.type_of # << >>
                    THEN dict_fromkeys(existing.type_of \o node.type_of)
                    ELSE @,
        !.modifiers = IF node.modifiers # << >>
                      THEN dict_fromkeys(existing.modifiers \o node.modifiers)
                      ELSE @,
        !.external = existing.external /\ node.external]

\* merge_node with the lists appended and not passed through dict.fromkeys.
merge_node_Appended(existing, node) ==
    [existing EXCEPT
        !.package = IF ~Truthy(existing.package) /\ Truthy(node.package)
                    THEN node.package ELSE @,
        !.specializes = existing.specializes \o node.specializes,
        !.type_of = existing.type_of \o node.type_of,
        !.modifiers = existing.modifiers \o node.modifiers,
        !.external = existing.external /\ node.external]

\* The merge of an incoming record into the existing one of the same name.
merge_node(existing, node) ==
    [existing EXCEPT
        !.package = IF ~Truthy(existing.package) /\ Truthy(node.package)
                    THEN node.package ELSE @,
        !.specializes = IF node.specializes # << >>
                        THEN dict_fromkeys(existing.specializes \o node.specializes)
                        ELSE @,
        !.type_of = IF node.type_of # << >>
                    THEN dict_fromkeys(existing.type_of \o node.type_of)
                    ELSE @,
        !.modifiers = IF node.modifiers # << >>
                      THEN dict_fromkeys(existing.modifiers \o node.modifiers)
                      ELSE @,
        !.external = existing.external /\ node.external]

add_node(m, node) ==
    IF node.name \in DOMAIN m.node_index
    THEN [m EXCEPT !.nodes[m.node_index[node.name]] = merge_node(@, node)]
    ELSE [m EXCEPT !.nodes = Append(@, node),
                   !.node_index = (node.name :> (Len(m.nodes) + 1)) @@ @]

add_relation(m, relation) ==
    [m EXCEPT !.relations = Append(@, relation)]

\* The stub ensure_relation_nodes makes for an endpoint without a record.
external_stub(endpoint) ==
    SysMLElement(endpoint, KindExternal, None, None, << >>, << >>, << >>, TRUE)

ensure_endpoint(m, endpoint) ==
    IF endpoint \notin DOMAIN m.node_index
    THEN add_node(m, external_stub(endpoint))
    ELSE m

\* ensure_relation_nodes looking at the source of each relation only.
ensure_relation_nodes_SourceOnly(m) ==
    LET F[i \in 0..Len(m.relations)] ==
            IF i = 0 THEN m
            ELSE ensure_endpoint(F[i - 1], m.relations[i].source)
    IN  F[Len(m.relations)]

ensure_relation_nodes(m) ==
    LET F[i \in 0..Len(m.relations)] ==
            IF i = 0 THEN m
            ELSE ensure_endpoint(ensure_endpoint(F[i - 1], m.relations[i].source),
                                 m.relations[i].target)
    IN  F[Len(m.relations)]

(* ---------------------------------------------------------------------- *)
(* parser.py: SysMLParser                                                  *)
(* ---------------------------------------------------------------------- *)

KwPackage == <<"p","a","c","k","a","g","e">>

KwUse == <<"u","s","e">>

KwCase == <<"c","a","s","e">>

KwValue == <<"v","a","l","u","e">>

KwType == <<"t","y","p","e">>

KwIndividual == <<"i","n","d","i","v","i","d","u","a","l">>

KwDef == <<"d","e","f">>

KwUsage == <<"u","s","a","g","e">>

KwConnect == <<"c","o","n","n","e","c","t">>

KwFrom == <<"f","r","o","m">>

KwTo == <<"t","o">>

KwWith == <<"w","i","t","h">>

KwAnd == <<"a","n","d">>

KindUseCase == <<"u","s","e"," ","c","a","s","e">>

KindValueType == <<"v","a","l","u","e"," ","t","y","p","e">>

RelSpecializes == <<"s","p","e","c","i","a","l","i","z","e","s">>

RelTyped == <<"t","y","p","e","d">>

RelConnects == <<"c","o","n","n","e","c","t","s">>

RelFlows == <<"f","l","o","w","s">>

LabelTypedBy == <<"t","y","p","e","d"," ","b","y">>

LabelUses == <<"u","s","e","s">>

LabelRole == <<"r","o","l","e">>

\* PackageContext(name, brace_balance)
PackageContext(name, brace_balance) ==
    [name |-> name, brace_balance |-> brace_balance]

\* re.sub(r"/\*.*?\*/", "", text, flags=re.DOTALL): each "/*" up to the
\* nearest "*/" that follows it is removed; an unclosed "/*" stays.
RECURSIVE strip_block_comments(_)
strip_block_comments(text) ==
    LET open == Find(text, <<"/", "*">>, 1)
        close == IF open = 0 THEN 0 ELSE Find(text, <<"*", "/">>, open + 2)
    IN  IF open = 0 \/ close = 0 THEN text
        ELSE SubSeq(text, 1, open - 1)
             \o strip_block_comments(Drop(text, close + 2))

\* str.splitlines over texts whose only line break is "\n".
RECURSIVE splitlines(_)
splitlines(text) ==
    LET nl == Find(text, <<"\n">>, 1)
    IN  IF text = << >> THEN << >>
        ELSE IF nl = 0 THEN << text >>
        ELSE << SubSeq(text, 1, nl - 1) >> \o splitlines(Drop(text, nl + 1))

\* shlex.split(line, posix=True) over lines without "'" and "\": blanks
\* separate words, a double quote opens and closes a quoted stretch that
\* belongs to the word and keeps its blanks, and the quotes are dropped.
\* ok is FALSE where shlex raises ValueError("No closing quotation").
shlex_split(line) ==
    LET F[i \in 0..Len(line)] ==
            IF i = 0
            THEN [tokens |-> << >>, token |-> << >>, in_token |-> FALSE,
                  in_quote |-> FALSE]
            ELSE LET st == F[i - 1]
                     c == line[i]
                 IN  IF st.in_quote
                     THEN IF c = "\""
                          THEN [st EXCEPT !.in_quote = FALSE]
                          ELSE [st EXCEPT !.token = Append(@, c)]
                     ELSE IF c \in Whitespace
                     THEN IF st.in_token
                          THEN [st EXCEPT !.tokens = Append(@, st.token),
                                          !.token = << >>, !.in_token = FALSE]
                          ELSE st
                     ELSE IF c = "\""
                     THEN [st EXCEPT !.in_quote = TRUE, !.in_token = TRUE]
                     ELSE [st EXCEPT !.token = Append(@, c), !.in_token = TRUE]
        end == F[Len(line)]
    IN  [ok |-> ~end.in_quote,
         tokens |-> IF end.in_token THEN Append(end.tokens, end.token)
                    ELSE end.tokens]

_tokenize(line) ==
    IF shlex_split(line).ok THEN shlex_split(line).tokens ELSE << >>

\* html.unescape.  A string without "&" is returned as it is; of the
\* character references only the four predefined ones, written with their
\* semicolon, are decoded (one pass, left to right).
RECURSIVE html_unescape(_)
html_unescape(s) ==
    LET amp == Find(s, <<"&">>, 1)
        rest == Drop(s, amp)
        quot == <<"&","q","u","o","t",";">>
        ampe == <<"&","a","m","p",";">>
        lt == <<"&","l","t",";">>
        gt == <<"&","g","t",";">>
    IN  IF amp = 0 THEN s
        ELSE SubSeq(s, 1, amp - 1) \o
             (IF startswith(rest, quot)
                THEN <<"\"">> \o html_unescape(Drop(rest, 7))
              ELSE IF startswith(rest, ampe)
                THEN <<"&">> \o html_unescape(Drop(rest, 6))
              ELSE IF startswith(rest, lt)
                THEN <<"<">> \o html_unescape(Drop(rest, 5))
              ELSE IF startswith(rest, gt)
                THEN <<">">> \o html_unescape(Drop(rest, 5))
              ELSE <<"&">> \o html_unescape(Drop(rest, 2)))

_clean_identifier(token) ==
    strip(html_unescape(strip(token, {" ", ",", ";", "{", "}"})), {"'", "\""})

\* _unique: the truthy values, each once, in first-seen order.
_unique(values) ==
    dict_fromkeys(SelectSeq(values, LAMBDA val : val # << >>))

StructuralKeywords ==
    {<<"{">>, <<"}">>, KwConnect, KwFrom, KwTo, KwAnd}

_collect_identifiers(tokens) ==
    LET F[i \in 0..Len(tokens)] ==
            IF i = 0 THEN [results |-> << >>, stopped |-> FALSE]
            ELSE LET st == F[i - 1]
                     cleaned == _clean_identifier(tokens[i])
                 IN  IF st.stopped \/ cleaned = << >> THEN st
                     ELSE IF cleaned \in StructuralKeywords
                     THEN [st EXCEPT !.stopped = TRUE]
                     ELSE [st EXCEPT !.results = Append(@, cleaned)]
    IN  F[Len(tokens)].results

\* The relations _parse_definition appends for a record: one per
\* specialization target, then one per type-of target.
definition_relations(model, node) ==
    LET S[i \in 0..Len(node.specializes)] ==
            IF i = 0 THEN model
            ELSE add_relation(S[i - 1],
                     SysMLRelation(node.name, node.specializes[i],
                                   RelSpecializes, Some(RelSpecializes)))
        T[i \in 0..Len(node.type_of)] ==
            IF i = 0 THEN S[Len(node.specializes)]
            ELSE add_relation(T[i - 1],
                     SysMLRelation(node.name, node.type_of[i], RelTyped,
                                   IF node.flavor = Some(KwDef)
                                   THEN Some(LabelTypedBy) ELSE Some(LabelUses)))
    IN  T[Len(node.type_of)]

\* _parse_definition: parsed is the returned bool, model the model as the
\* call leaves it and node the record it handed to add_node.
_parse_definition(tokens, package, model) ==
    LET no == [parsed |-> FALSE, model |-> model, node |-> << >>]
        first == lower(tokens[1])
        after == Tail(tokens)
        two_word(a, b) ==
            first = a /\ after # << >> /\ lower(after[1]) = b
        individual == first = KwIndividual /\ after # << >>
        modifiers ==
            IF ~two_word(KwUse, KwCase) /\ ~two_word(KwValue, KwType) /\ individual
            THEN << KwIndividual >> ELSE << >>
        kind_token ==
            IF two_word(KwUse, KwCase) THEN KindUseCase
            ELSE IF two_word(KwValue, KwType) THEN KindValueType
            ELSE IF individual THEN lower(after[1])
            ELSE first
        rest1 ==
            IF two_word(KwUse, KwCase) \/ two_word(KwValue, KwType) \/ individual
            THEN Tail(after) ELSE after
        has_flavor == rest1 # << >> /\ lower(rest1[1]) \in {KwDef, KwUsage}
        flavor == IF has_flavor THEN Some(lower(rest1[1])) ELSE None
        rest2 == IF has_flavor THEN Tail(rest1) ELSE rest1
        name == _clean_identifier(rest2[1])
        iterator == Tail(rest2)
        classifiers == {i \in 1..Len(iterator) :
                           lower(iterator[i]) \in {<<":">>, <<":", ">">>,
                                                   <<":", ">", ">">>}}
        idx == CHOOSE i \in classifiers : \A j \in classifiers : i <= j
        values == IF classifiers = {} THEN << >>
                  ELSE _collect_identifiers(Drop(iterator, idx + 1))
        type_of == IF classifiers # {} /\ lower(iterator[idx]) = <<":">>
                   THEN values ELSE << >>
        specializes == IF classifiers # {} /\ lower(iterator[idx]) # <<":">>
                       THEN values ELSE << >>
        node == SysMLElement(name, kind_token, flavor, package,
                             _unique(type_of), _unique(specializes),
                             modifiers, FALSE)
    IN  IF tokens = << >> THEN no
        ELSE IF kind_token = KwPackage THEN no
        ELSE IF rest2 = << >> THEN no
        ELSE IF name = << >> THEN no
        ELSE [parsed |-> TRUE, node |-> node,
              model |-> definition_relations(add_node(model, node), node)]

\* One attempt of CONNECT_RE (keyword "connect", link words "to" | "with")
\* or FLOW_RE (keyword "from", link word "to") at position p of the line:
\*     keyword \s+ (?P<src>[^\s]+) \s+ (?:link) \s+ (?P<dst>[^\s;]+)
\* Every class is greedy and no shorter run can match, so the attempt is
\* decided by the longest runs.  end is the position after the match.
link_pattern_at(line, p, keyword, links) ==
    LET a == p + Len(keyword)
        b == SpanIn(line, a, Whitespace)
        c == SpanNotIn(line, b, Whitespace)
        d == SpanIn(line, c, Whitespace)
        used == {l \in links : MatchAtCI(line, d, l)
                               /\ SpanIn(line, d + Len(l), Whitespace) > d + Len(l)}
        link == CHOOSE l \in used : TRUE
        e == SpanIn(line, d + Len(link), Whitespace)
        f == SpanNotIn(line, e, Whitespace \cup {";"})
    IN  IF MatchAtCI(line, p, keyword) /\ b > a /\ c > b /\ d > c
           /\ used # {} /\ f > e
        THEN [ok |-> TRUE, src |-> SubSeq(line, b, c - 1),
              dst |-> SubSeq(line, e, f - 1), end |-> f]
        ELSE [ok |-> FALSE, src |-> << >>, dst |-> << >>, end |-> p]

RoleKeywords ==
    {<<"s","u","b","j","e","c","t">>, <<"a","c","t","o","r">>,
     <<"i","t","e","m">>, <<"p","o","r","t">>}

\* One attempt of ROLE_RE at position p:
\*     (?:subject|actor|item|port) \s+ (?P<name>[\w\.]+) \s* : \s* (?P<target>[^\s;]+)
role_pattern_at(line, p) ==
    LET used == {k \in RoleKeywords : MatchAtCI(line, p, k)}
        keyword == CHOOSE k \in used : TRUE
        a == p + Len(keyword)
        b == SpanIn(line, a, Whitespace)
        c == SpanIn(line, b, WordChars \cup {"."})
        d == SpanIn(line, c, Whitespace)
        e == SpanIn(line, d + 1, Whitespace)
        f == SpanNotIn(line, e, Whitespace \cup {";"})
    IN  IF used # {} /\ b > a /\ c > b /\ MatchAt(line, d, <<":">>) /\ f > e
        THEN [ok |-> TRUE, src |-> SubSeq(line, b, c - 1),
              dst |-> SubSeq(line, e, f - 1), end |-> f]
        ELSE [ok |-> FALSE, src |-> << >>, dst |-> << >>, end |-> p]

pattern_at(line, p, pattern) ==
    IF pattern = "CONNECT_RE"
    THEN link_pattern_at(line, p, KwConnect, {KwTo, KwWith})
    ELSE IF pattern = "FLOW_RE"
    THEN link_pattern_at(line, p, KwFrom, {KwTo})
    ELSE role_pattern_at(line, p)

\* pattern.finditer(line): the matches from position p on, leftmost first
\* and not overlapping.
RECURSIVE finditer(_, _, _)
finditer(line, p, pattern) ==
    IF p > Len(line) THEN << >>
    ELSE LET m == pattern_at(line, p, pattern)
         IN  IF m.ok THEN << m >> \o finditer(line, m.end, pattern)
             ELSE finditer(line, p + 1, pattern)

\* One of _extract_relations' three loops: a relation for each match whose
\* cleaned source and target are both non-empty.
add_matches(model, matches, relation, label) ==
    LET F[i \in 0..Len(matches)] ==
            IF i = 0 THEN model
            ELSE LET src == _clean_identifier(matches[i].src)
                     dst == _clean_identifier(matches[i].dst)
                 IN  IF src # << >> /\ dst # << >>
                     THEN add_relation(F[i - 1],
                              SysMLRelation(src, dst, relation, Some(label)))
                     ELSE F[i - 1]
    IN  F[Len(matches)]

_extract_relations(line, model) ==
    LET m1 == add_matches(model, finditer(line, 1, "CONNECT_RE"),
                          RelConnects, RelConnects)
        m2 == add_matches(m1, finditer(line, 1, "FLOW_RE"), RelFlows, RelFlows)
    IN  add_matches(m2, finditer(line, 1, "ROLE_RE"), RelTyped, LabelRole)

\* pop_closed dropping the closing braces a popped record did not use up.
RECURSIVE pop_closed_NoCarry(_)
pop_closed_NoCarry(stack) ==
    IF stack = << >> \/ stack[Len(stack)].brace_balance > 0 THEN stack
    ELSE pop_closed_NoCarry(SubSeq(stack, 1, Len(stack) - 1))

\* pop_closed as an if: at most one record is popped for a line.
pop_closed_Once(stack) ==
    IF stack = << >> \/ stack[Len(stack)].brace_balance > 0 THEN stack
    ELSE LET leftover == stack[Len(stack)].brace_balance
             popped == SubSeq(stack, 1, Len(stack) - 1)
         IN  IF leftover < 0 /\ popped # << >>
             THEN [popped EXCEPT ![Len(popped)].brace_balance = @ + leftover]
             ELSE popped

\* The while loop of _update_stack: pop every record whose balance is zero
\* or less, passing a negative balance on to the record below.
RECURSIVE pop_closed(_)
pop_closed(stack) ==
    IF stack = << >> \/ stack[Len(stack)].brace_balance > 0 THEN stack
    ELSE LET leftover == stack[Len(stack)].brace_balance
             popped == SubSeq(stack, 1, Len(stack) - 1)
         IN  IF leftover < 0 /\ popped # << >>
             THEN pop_closed([popped EXCEPT
                      ![Len(popped)].brace_balance = @ + leftover])
             ELSE pop_closed(popped)

_update_stack(stack, line) ==
    IF stack = << >> THEN stack
    ELSE LET delta == count(line, "{") - count(line, "}")
         IN  pop_closed([stack EXCEPT ![Len(stack)].brace_balance = @ + delta])

\* re.match(r"^package\s+([^ {]+)", line, re.IGNORECASE): group 1, or None.
package_match(line) ==
    LET a == Len(KwPackage) + 1
        b == SpanIn(line, a, Whitespace)
        c == SpanNotIn(line, b, {" ", "{"})
    IN  IF MatchAtCI(line, 1, KwPackage) /\ b > a /\ c > b
        THEN Some(SubSeq(line, b, c - 1))
        ELSE None

(* ---------------------------------------------------------------------- *)
(* renderer.py: SysMLRenderer                                              *)
(*                                                                         *)
(* The markup text is kept as the sequence of its pieces, in the order the *)
(* code joins them: each piece is a record naming the markup element and   *)
(* the values the code formats into it.                                    *)
(* ---------------------------------------------------------------------- *)

GLOBAL_PACKAGE == <<"_","_","g","l","o","b","a","l","_","_">>

node_width == 220

node_height == 88

margin_x == 36

margin_y == 64

gap_x == 48

gap_y == 32

empty_width == 480

empty_height == 200

\* html.escape(s) with quote=True
html_escape(s) ==
    LET F[i \in 0..Len(s)] ==
            IF i = 0 THEN << >>
            ELSE F[i - 1] \o
                 (IF s[i] = "&" THEN <<"&","a","m","p",";">>
                  ELSE IF s[i] = "<" THEN <<"&","l","t",";">>
                  ELSE IF s[i] = ">" THEN <<"&","g","t",";">>
                  ELSE IF s[i] = "\"" THEN <<"&","q","u","o","t",";">>
                  ELSE IF s[i] = "'" THEN <<"&","#","x","2","7",";">>
                  ELSE << s[i] >>)
    IN  F[Len(s)]

\* sep.join(parts)
join(sep, parts) ==
    LET F[i \in 0..Len(parts)] ==
            IF i = 0 THEN << >>
            ELSE IF i = 1 THEN parts[1]
            ELSE F[i - 1] \o sep \o parts[i]
    IN  F[Len(parts)]

\* normalize(value): the package, or the global column for None and "".
normalize(value) == IF Truthy(value) THEN value[1] ELSE GLOBAL_PACKAGE

\* _package_columns keeping the declared packages only.
_package_columns_DeclaredOnly(nodes, model) ==
    LET declared == [i \in 1..Len(model.packages) |-> model.packages[i].name]
        owned == SelectSeq(declared,
                     LAMBDA pkg : \E i \in 1..Len(nodes) :
                                     normalize(nodes[i].package) = pkg)
    IN  IF owned = << >> THEN << GLOBAL_PACKAGE >> ELSE owned

\* _package_columns in the order the elements bring their packages up,
\* whatever the declarations.
_package_columns_FirstSeen(nodes, model) ==
    LET F[i \in 0..Len(nodes)] ==
            IF i = 0 THEN << >>
            ELSE IF Contains(F[i - 1], normalize(nodes[i].package))
            THEN F[i - 1]
            ELSE Append(F[i - 1], normalize(nodes[i].package))
    IN  IF F[Len(nodes)] = << >> THEN << GLOBAL_PACKAGE >> ELSE F[Len(nodes)]

_package_columns(nodes, model) ==
    LET declared == [i \in 1..Len(model.packages) |-> model.packages[i].name]
        owned == SelectSeq(declared,
                     LAMBDA pkg : \E i \in 1..Len(nodes) :
                                     normalize(nodes[i].package) = pkg)
        F[i \in 0..Len(nodes)] ==
            IF i = 0 THEN owned
            ELSE IF Contains(F[i - 1], normalize(nodes[i].package))
            THEN F[i - 1]
            ELSE Append(F[i - 1], normalize(nodes[i].package))
        package_names == F[Len(nodes)]
    IN  IF package_names = << >> THEN << GLOBAL_PACKAGE >> ELSE package_names

\* _layout_nodes: the placements dict, name -> NodePosition.  An element's
\* column is each position of its package in package_names (the later one
\* overwrites), its row its rank among the elements of the same package.
_layout_nodes(nodes, package_names) ==
    LET column(pkg) == SelectSeq(nodes, LAMBDA node : normalize(node.package) = pkg)
        placed == {i \in 1..Len(nodes) :
                      Contains(package_names, normalize(nodes[i].package))}
        column_index(i) ==
            CHOOSE c \in 1..Len(package_names) :
                /\ package_names[c] = normalize(nodes[i].package)
                /\ \A d \in 1..Len(package_names) :
                      package_names[d] = package_names[c] => d <= c
        row(i) == Cardinality({j \in 1..(i - 1) :
                      normalize(nodes[j].package) = normalize(nodes[i].package)})
        last_of(name) ==
            CHOOSE i \in placed :
                /\ nodes[i].name = name
                /\ \A j \in placed : nodes[j].name = name => j <= i
    IN  [name \in {nodes[i].name : i \in placed} |->
            [x |-> margin_x + (column_index(last_of(name)) - 1) * (node_width + gap_x),
             y |-> margin_y + row(last_of(name)) * (node_height + gap_y)]]

\* _row_counts: the dict's values (the number of elements of each column).
_row_counts(nodes, package_names) ==
    LET keys == {package_names[i] : i \in 1..Len(package_names)}
                \cup {normalize(nodes[i].package) : i \in 1..Len(nodes)}
    IN  [pkg \in keys |->
            Cardinality({i \in 1..Len(nodes) : normalize(nodes[i].package) = pkg})]

\* _canvas_width for one column, however many there are.
_canvas_width_OneColumn(columns) == margin_x * 2 + node_width

_canvas_width(columns) ==
    LET n == IF columns <= 0 THEN 1 ELSE columns
    IN  margin_x * 2 + n * node_width + (n - 1) * gap_x

_canvas_height(rows) ==
    LET n == IF rows <= 0 THEN 1 ELSE rows
    IN  margin_y * 2 + n * node_height + (n - 1) * gap_y

Max(S) == CHOOSE x \in S : \A y \in S : y <= x

MetaSeparator == <<" ", "·", " ">>

CommaSeparator == <<",", " ">>

\* One card of _render_nodes.
node_card(node, position) ==
    LET meta_bits == << node.kind >>
                     \o (IF Truthy(node.flavor) THEN << node.flavor[1] >> ELSE << >>)
                     \o node.modifiers
        details ==
            (IF node.specializes # << >>
             THEN << <<"⇢", " ">> \o join(CommaSeparator, node.specializes) >>
             ELSE << >>)
            \o (IF node.type_of # << >>
                THEN << <<"↦", " ">> \o join(CommaSeparator, node.type_of) >>
                ELSE << >>)
    IN  [tag |-> "g", external |-> node.external,
         x |-> position.x, y |-> position.y,
         width |-> node_width, height |-> node_height,
         title |-> html_escape(node.name),
         meta |-> html_escape(join(MetaSeparator, meta_bits)),
         detail |-> [i \in 1..Len(details) |->
                        [x |-> position.x + 16, text |-> html_escape(details[i])]]]

_render_nodes(nodes, placements) ==
    LET F[i \in 0..Len(nodes)] ==
            IF i = 0 THEN << >>
            ELSE IF nodes[i].name \notin DOMAIN placements THEN F[i - 1]
            ELSE Append(F[i - 1], node_card(nodes[i], placements[nodes[i].name]))
    IN  F[Len(nodes)]

\* One path and label of _render_edges.  The coordinates are the code's
\* floats, all whole numbers here (node_width and node_height are even).
edge_path(relation, src, dst) ==
    LET x1 == src.x + node_width \div 2
        y1 == src.y + node_height \div 2
        x2 == dst.x + node_width \div 2
        y2 == dst.y + node_height \div 2
    IN  [tag |-> "path",
         x1 |-> x1, y1 |-> y1, x2 |-> x2, y2 |-> y2,
         mx |-> (x1 + x2) \div 2, my |-> (y1 + y2) \div 2,
         label |-> html_escape(IF Truthy(relation.label) THEN relation.label[1]
                               ELSE relation.relation)]

_render_edges(relations, placements) ==
    LET F[i \in 0..Len(relations)] ==
            IF i = 0 THEN << >>
            ELSE IF relations[i].source \notin DOMAIN placements
                    \/ relations[i].target \notin DOMAIN placements
            THEN F[i - 1]
            ELSE Append(F[i - 1],
                     edge_path(relations[i], placements[relations[i].source],
                               placements[relations[i].target]))
    IN  F[Len(relations)]

LabelGlobal == <<"G","l","o","b","a","l">>

_render_package_labels(package_names) ==
    [i \in 1..Len(package_names) |->
        [tag |-> "text", class |-> "sysmlv2-package",
         x |-> margin_x + (i - 1) * (node_width + gap_x) + node_width \div 2,
         y |-> margin_y \div 2,
         label |-> html_escape(IF package_names[i] = GLOBAL_PACKAGE
                               THEN LabelGlobal ELSE package_names[i])]]

XmlDeclaration == [tag |-> "?xml"]

NoElementsFound ==
    <<"N","o"," ","e","l","e","m","e","n","t","s"," ","f","o","u","n","d">>

DefaultTitle == <<"S","y","s","M","L"," ","m","o","d","e","l">>

_render_empty_svg(title, model, inline) ==
    (IF ~inline THEN << XmlDeclaration >> ELSE << >>)
    \o << [tag |-> "svg", width |-> empty_width, height |-> empty_height],
          [tag |-> "title", text |-> html_escape(title)],
          [tag |-> "style"],
          [tag |-> "rect", class |-> "sysmlv2-canvas",
           width |-> empty_width, height |-> empty_height],
          [tag |-> "text", class |-> "sysmlv2-empty",
           x |-> empty_width \div 2, y |-> empty_height \div 2],
          [tag |-> "desc",
           text |-> IF Truthy(model.source_path)
                    THEN html_escape(model.source_path[1]) ELSE NoElementsFound],
          [tag |-> "/svg"] >>

\* render_svg taking the empty path only when the model holds no element
\* at all, packages included.
render_svg_AnyElement(model, title, inline) ==
    LET nodes == SelectSeq(model.nodes, LAMBDA node : node.kind # KindPackage)
        package_names == _package_columns(nodes, model)
        placements == _layout_nodes(nodes, package_names)
        row_counts == _row_counts(nodes, package_names)
        width == _canvas_width(Len(package_names))
        height == _canvas_height(
                      IF DOMAIN row_counts # {}
                      THEN Max({row_counts[pkg] : pkg \in DOMAIN row_counts})
                      ELSE 1)
    IN  IF model.nodes = << >>
        THEN _render_empty_svg(IF title # << >> THEN title ELSE DefaultTitle,
                               model, inline)
        ELSE (IF ~inline THEN << XmlDeclaration >> ELSE << >>)
             \o << [tag |-> "svg", width |-> width, height |-> height],
                   [tag |-> "title", text |-> html_escape(title)],
                   [tag |-> "style"],
                   [tag |-> "defs"],
                   [tag |-> "rect", class |-> "sysmlv2-canvas",
                    width |-> width, height |-> height] >>
             \o _render_package_labels(package_names)
             \o _render_edges(model.relations, placements)
             \o _render_nodes(nodes, placements)
             \o (IF Truthy(model.source_path)
                 THEN << [tag |-> "desc", prefix |-> "Source: ",
                          text |-> html_escape(model.source_path[1])] >>
                 ELSE << >>)
             \o << [tag |-> "/svg"] >>

render_svg(model, title, inline) ==
    LET nodes == SelectSeq(model.nodes, LAMBDA node : node.kind # KindPackage)
        package_names == _package_columns(nodes, model)
        placements == _layout_nodes(nodes, package_names)
        row_counts == _row_counts(nodes, package_names)
        width == _canvas_width(Len(package_names))
        height == _canvas_height(
                      IF DOMAIN row_counts # {}
                      THEN Max({row_counts[pkg] : pkg \in DOMAIN row_counts})
                      ELSE 1)
    IN  IF nodes = << >>
        THEN _render_empty_svg(IF title # << >> THEN title ELSE DefaultTitle,
                               model, inline)
        ELSE (IF ~inline THEN << XmlDeclaration >> ELSE << >>)
             \o << [tag |-> "svg", width |-> width, height |-> height],
                   [tag |-> "title", text |-> html_escape(title)],
                   [tag |-> "style"],
                   [tag |-> "defs"],
                   [tag |-> "rect", class |-> "sysmlv2-canvas",
                    width |-> width, height |-> height] >>
             \o _render_package_labels(package_names)
             \o _render_edges(model.relations, placements)
             \o _render_nodes(nodes, placements)
             \o (IF Truthy(model.source_path)
                 THEN << [tag |-> "desc", prefix |-> "Source: ",
                          text |-> html_escape(model.source_path[1])] >>
                 ELSE << >>)
             \o << [tag |-> "/svg"] >>

\* render taking every format other than "html" for "svg".
render_SvgByDefault(model, fmt, title, inline) ==
    IF fmt = "html"
    THEN [raised |-> "",
          markup |-> << [tag |-> "figure"] >> \o render_svg(model, title, TRUE)
                     \o << [tag |-> "/figure"] >>]
    ELSE [raised |-> "", markup |-> render_svg(model, title, inline)]

\* render: the markup it returns, or the ValueError it raises.
render(model, fmt, title, inline) ==
    IF fmt = "svg"
    THEN [raised |-> "", markup |-> render_svg(model, title, inline)]
    ELSE IF fmt = "html"
    THEN [raised |-> "",
          markup |-> << [tag |-> "figure"] >> \o render_svg(model, title, TRUE)
                     \o << [tag |-> "/figure"] >>]
    ELSE [raised |-> "ValueError", markup |-> << >>]

(* ---------------------------------------------------------------------- *)
(* Inputs                                                                  *)
(* ---------------------------------------------------------------------- *)

\* package P { part A : B; connect A to C; }
FragmentRoundTrip ==
    <<"p","a","c","k","a","g","e"," ","P"," ","{"," ","p","a","r","t"," ",
      "A"," ",":"," ","B",";"," ","c","o","n","n","e","c","t"," ","A"," ",
      "t","o"," ","C",";"," ","}">>

\* package P {
FragmentOpenP ==
    <<"p","a","c","k","a","g","e"," ","P"," ","{">>

\* two lines: package O {  /  package I {
FragmentNested ==
    <<"p","a","c","k","a","g","e"," ","O"," ","{","\n","p","a","c","k","a",
      "g","e"," ","I"," ","{">>

\* } }
FragmentCloseBoth ==
    <<"}"," ","}">>

\* part A : B;
FragmentPart ==
    <<"p","a","r","t"," ","A"," ",":"," ","B",";">>

\* connect A to C, after one blank
FragmentConnect ==
    <<" ","c","o","n","n","e","c","t"," ","A"," ","t","o"," ","C">>

\* from A to C
FragmentFlow ==
    <<"f","r","o","m"," ","A"," ","t","o"," ","C">>

\* part def B :> C C to D // }
FragmentSpecializes ==
    <<"p","a","r","t"," ","d","e","f"," ","B"," ",":",">"," ","C"," ","C",
      " ","t","o"," ","D"," ","/","/"," ","}">>

\* part A : B { C
FragmentBraceList ==
    <<"p","a","r","t"," ","A"," ",":"," ","B"," ","{"," ","C">>

\* connect (double quote) A with C: the quote is never closed
FragmentUnbalanced ==
    <<"c","o","n","n","e","c","t"," ","\"","A"," ","w","i","t","h"," ","C">>

\* two lines: /* {  /  } */
FragmentBlockComment ==
    <<"/","*"," ","{","\n","}"," ","*","/">>

\* The pieces input texts are made of.
Fragments ==
    {FragmentRoundTrip, FragmentOpenP, FragmentNested, FragmentCloseBoth,
     FragmentPart, FragmentConnect, FragmentFlow, FragmentSpecializes,
     FragmentBraceList, FragmentUnbalanced, FragmentBlockComment}

\* The texts given to parse: up to MaxLines fragments, one after the other,
\* each on a line of its own.
Texts ==
    {join(<<"\n">>, fs) : fs \in UNION {[1..n -> Fragments] : n \in 0..MaxLines}}

NameA == <<"A">>

NameB == <<"B">>

NameC == <<"C">>

NameP == <<"P">>

NameQ == <<"Q">>

KindPart == <<"p","a","r","t">>

\* The element records a client hands to add_node: well-formed elements
\* (a non-empty name, reference lists without repeated entries), as the
\* parser builds them, of either name.
ElementInputs ==
    {SysMLElement(name, v[1], None, v[2], v[3], v[4], v[5], v[6]) :
        name \in {NameA, NameB},
        v \in {<<KindPart, None, << >>, << >>, << >>, FALSE>>,
               <<KindPart, Some(NameP), <<NameB>>, << >>, << >>, FALSE>>,
               <<KindPart, Some(NameQ), <<NameC, NameB>>, <<NameC>>,
                 <<KwIndividual>>, FALSE>>,
               <<KindPart, Some(<< >>), <<NameC>>, <<NameA>>, << >>, TRUE>>,
               <<KindPackage, Some(NameP), << >>, <<NameC>>, << >>, FALSE>>}}

RelationInputs ==
    {SysMLRelation(NameA, NameB, RelTyped, Some(LabelUses)),
     SysMLRelation(NameA, NameC, RelConnects, None),
     SysMLRelation(NameC, NameC, RelFlows, Some(RelFlows))}

PackageInputs == {NameP, NameQ}

TitleT == <<"T", "<", "1", ">">>

\* The arguments render is called with: fmt, title, inline.
RenderInputs ==
    {<<"svg", << >>, FALSE>>, <<"svg", TitleT, TRUE>>,
     <<"html", TitleT, FALSE>>, <<"png", TitleT, FALSE>>,
     <<"SVG", << >>, TRUE>>}

SourcePath == <<"m",".","s","y","s","m","l">>

(* ---------------------------------------------------------------------- *)
(* State                                                                   *)
(* ---------------------------------------------------------------------- *)

VARIABLES
    phase,          \* "api": a client builds the model by calls on it;
                    \* "parsing": parse is in its loop over the lines;
                    \* "returned": parse has returned the model
    text,           \* parse's argument
    lines,          \* cleaned.splitlines()
    pc,             \* the index in lines of the line the loop is at
    package_stack,  \* parse's package_stack, the top last
    model,          \* the SysMLModel
    calls,          \* the number of calls the client has made on the model
    added,          \* the records handed to add_node by the client or by
                    \* _parse_definition so far, in call order
    rendered,       \* whether the model has been handed to render
    last            \* the last operation: its name, argument and result

vars ==
    << phase, text, lines, pc, package_stack, model, calls, added, rendered, last >>

Op(op, arg, result) == [op |-> op, arg |-> arg, result |-> result]

\* A client starts from SysMLModel(); parse from the first statements of
\* SysMLParser.parse (the text cleaned and split, an empty model and stack).
Init ==
    /\ \/ phase = "api" /\ text = << >> /\ lines = << >>
       \/ /\ phase = "parsing"
          /\ \E t \in Texts :
                 text = t /\ lines = splitlines(strip_block_comments(t))
    /\ pc = 1
    /\ package_stack = << >>
    /\ model = SysMLModel(IF phase = "api" THEN None ELSE Some(SourcePath))
    /\ calls = 0
    /\ added = << >>
    /\ rendered = FALSE
    /\ last = Op("init", << >>, << >>)

(* ---------------------------------------------------------------------- *)
(* A client's calls on the model                                           *)
(* ---------------------------------------------------------------------- *)

CallAddPackage(name) ==
    /\ phase = "api" /\ ~rendered /\ calls < MaxCalls
    /\ model' = add_package(model, name)
    /\ calls' = calls + 1
    /\ last' = Op("add_package", name, << >>)
    /\ UNCHANGED << phase, text, lines, pc, package_stack, added, rendered >>

CallAddNode(node) ==
    /\ phase = "api" /\ ~rendered /\ calls < MaxCalls
    /\ model' = add_node(model, node)
    /\ calls' = calls + 1
    /\ added' = Append(added, node)
    /\ last' = Op("add_node", node, << >>)
    /\ UNCHANGED << phase, text, lines, pc, package_stack, rendered >>

CallAddRelation(relation) ==
    /\ phase = "api" /\ ~rendered /\ calls < MaxCalls
    /\ model' = add_relation(model, relation)
    /\ calls' = calls + 1
    /\ last' = Op("add_relation", relation, << >>)
    /\ UNCHANGED << phase, text, lines, pc, package_stack, added, rendered >>

CallEnsureRelationNodes ==
    /\ phase = "api" /\ ~rendered /\ calls < MaxCalls
    /\ model' = ensure_relation_nodes(model)
    /\ calls' = calls + 1
    /\ last' = Op("ensure_relation_nodes", << >>, << >>)
    /\ UNCHANGED << phase, text, lines, pc, package_stack, added, rendered >>

(* ---------------------------------------------------------------------- *)
(* SysMLParser.parse: one action for each path through the loop body       *)
(* ---------------------------------------------------------------------- *)

raw_line == lines[pc]

stripped_line == strip(raw_line, Whitespace)

\* The line after "remove inline comment".
code_line ==
    LET at == Find(stripped_line, <<"/", "/">>, 1)
    IN  IF at = 0 THEN stripped_line
        ELSE strip(SubSeq(stripped_line, 1, at - 1), Whitespace)

InLoop == phase = "parsing" /\ pc <= Len(lines)

\* The three paths that only update the stack: a blank line, a whole-line
\* comment, and a line that its inline comment leaves empty.
IsSkipped ==
    \/ stripped_line = << >>
    \/ startswith(stripped_line, <<"/", "/">>)
    \/ code_line = << >>

IsPackageLine == ~IsSkipped /\ package_match(code_line) # None

current_package ==
    IF package_stack # << >>
    THEN Some(package_stack[Len(package_stack)].name) ELSE None

\* tokens is empty, or _parse_definition returns False
definition == _parse_definition(_tokenize(code_line), current_package, model)

SkipLine ==
    /\ InLoop /\ IsSkipped
    /\ package_stack' = _update_stack(package_stack, raw_line)
    /\ pc' = pc + 1
    /\ last' = Op("skip", pc, << >>)
    /\ UNCHANGED << phase, text, lines, model, calls, added, rendered >>

PackageLine ==
    /\ InLoop /\ IsPackageLine
    /\ LET package_name == _clean_identifier(package_match(code_line)[1])
       IN  /\ package_stack' =
                  _update_stack(Append(package_stack, PackageContext(package_name, 0)),
                                raw_line)
           /\ model' = add_package(model, package_name)
           /\ last' = Op("package", pc, package_name)
    /\ pc' = pc + 1
    /\ UNCHANGED << phase, text, lines, calls, added, rendered >>

DefinitionLine ==
    /\ InLoop /\ ~IsSkipped /\ ~IsPackageLine
    /\ definition.parsed
    /\ model' = definition.model
    /\ added' = Append(added, definition.node)
    /\ package_stack' = _update_stack(package_stack, raw_line)
    /\ pc' = pc + 1
    /\ last' = Op("definition", pc, definition.node)
    /\ UNCHANGED << phase, text, lines, calls, rendered >>

RelationLine ==
    /\ InLoop /\ ~IsSkipped /\ ~IsPackageLine
    /\ ~definition.parsed
    /\ model' = _extract_relations(code_line, model)
    /\ package_stack' = _update_stack(package_stack, raw_line)
    /\ pc' = pc + 1
    /\ last' = Op("relations", pc, << >>)
    /\ UNCHANGED << phase, text, lines, calls, added, rendered >>

\* The loop is over: model.ensure_relation_nodes(), return model.
Return ==
    /\ phase = "parsing" /\ pc > Len(lines)
    /\ model' = ensure_relation_nodes(model)
    /\ phase' = "returned"
    /\ last' = Op("ensure_relation_nodes", << >>, << >>)
    /\ UNCHANGED << text, lines, pc, package_stack, calls, added, rendered >>

(* ---------------------------------------------------------------------- *)
(* SysMLRenderer.render on the model a client built or parse returned      *)
(* ---------------------------------------------------------------------- *)

Render(fmt, title, inline) ==
    /\ phase \in {"api", "returned"} /\ ~rendered
    /\ rendered' = TRUE
    /\ last' = Op("render", <<fmt, title, inline>>, render(model, fmt, title, inline))
    /\ UNCHANGED << phase, text, lines, pc, package_stack, model, calls, added >>

Next ==
    \/ \E name \in PackageInputs : CallAddPackage(name)
    \/ \E node \in ElementInputs : CallAddNode(node)
    \/ \E relation \in RelationInputs : CallAddRelation(relation)
    \/ CallEnsureRelationNodes
    \/ SkipLine
    \/ PackageLine
    \/ DefinitionLine
    \/ RelationLine
    \/ Return
    \/ \E args \in RenderInputs : Render(args[1], args[2], args[3])

Spec == Init /\ [][Next]_vars

(* ---------------------------------------------------------------------- *)
(* Properties                                                              *)
(* ---------------------------------------------------------------------- *)

\* The element record the model holds under a name of its index.
Element(name) == model.nodes[model.node_index[name]]

\* The records handed to add_node under a name, in call order.
AddedAs(name) == SelectSeq(added, LAMBDA node : node.name = name)

Endpoints == {model.relations[i].source : i \in 1..Len(model.relations)}
             \cup {model.relations[i].target : i \in 1..Len(model.relations)}

\* C1: once ensure_relation_nodes has run (called by a client, or by parse
\* before it returns), the source and the target of every relation are
\* names of element records of the model, and an endpoint no add_node call
\* of the client or the parser ever named is a stub: kind "external",
\* external = true.
C1_EndpointsResolved ==
    last.op = "ensure_relation_nodes" =>
        \A e \in Endpoints :
            /\ e \in DOMAIN model.node_index
            /\ model.node_index[e] \in 1..Len(model.nodes)
            /\ Element(e).name = e
            /\ AddedAs(e) = << >> =>
                   Element(e).kind = KindExternal /\ Element(e).external

\* C1's case: finalization has run on a relation from a defined element to
\* an endpoint nothing defined.
C1_Witness ==
    /\ last.op = "ensure_relation_nodes"
    /\ \E i \in 1..Len(model.relations) :
          /\ AddedAs(model.relations[i].source) # << >>
          /\ AddedAs(model.relations[i].target) = << >>
          /\ model.relations[i].source # model.relations[i].target

\* C2: an element no add_node call named (it exists because a relation
\* referenced it) has external = true; a step that hands add_node a record
\* with external = false leaves the element of that name with external =
\* false; and no step turns external from false back to true.
C2_ExternalStep ==
    /\ \A name \in DOMAIN model.node_index :
          ~Element(name).external =>
              /\ name \in DOMAIN model'.node_index
              /\ ~model'.nodes[model'.node_index[name]].external
    /\ \A name \in DOMAIN model'.node_index :
          (\A i \in 1..Len(added') : added'[i].name # name) =>
              model'.nodes[model'.node_index[name]].external
    /\ (Len(added') = Len(added) + 1 /\ ~added'[Len(added')].external) =>
          ~model'.nodes[model'.node_index[added'[Len(added')].name]].external

C2_ExternalDemotion == [][C2_ExternalStep]_vars

\* C2's case: a stub synthesized for a relation endpoint has then been
\* defined by an add_node call with external = false.
C2_Witness ==
    /\ last.op = "add_node"
    /\ ~last.arg.external
    /\ Element(last.arg.name).kind = KindExternal
    /\ ~Element(last.arg.name).external

\* C3: every name of the index has exactly one element record, and its
\* package is the package of the first record handed to add_node under that
\* name that carried a (non-empty) package; when none did it has no package.
C3_PackageKept ==
    \A name \in DOMAIN model.node_index :
        LET carrying == SelectSeq(AddedAs(name), LAMBDA node : Truthy(node.package))
        IN  /\ Cardinality({i \in 1..Len(model.nodes) :
                               model.nodes[i].name = name}) = 1
            /\ IF carrying # << >>
               THEN Element(name).package = carrying[1].package
               ELSE ~Truthy(Element(name).package)

\* C3's case: one name was added without a package, then with one, then
\* without again, and holds the package.
C3_Witness ==
    \E name \in DOMAIN model.node_index :
        LET recs == AddedAs(name)
        IN  /\ Len(recs) = 3
            /\ ~Truthy(recs[1].package)
            /\ Truthy(recs[2].package)
            /\ ~Truthy(recs[3].package)
            /\ Element(name).package = recs[2].package

\* The entries of a list, each at its first occurrence only.
FirstOccurrences(seq) ==
    LET first == {i \in 1..Len(seq) : \A j \in 1..(i - 1) : seq[j] # seq[i]}
        nth(k) == CHOOSE i \in first : Cardinality({j \in first : j < i}) = k - 1
    IN  [k \in 1..Cardinality(first) |-> seq[nth(k)]]

\* The lists of one field of the records, one after the other.
Concatenated(records, field) ==
    LET F[i \in 0..Len(records)] ==
            IF i = 0 THEN << >> ELSE F[i - 1] \o records[i][field]
    IN  F[Len(records)]

NameO == <<"O">>

NameI == <<"I">>

HasRelation(source, target, relation, label) ==
    \E i \in 1..Len(model.relations) :
        model.relations[i] = SysMLRelation(source, target, relation, Some(label))

\* C5: parse of the text `package P { part A : B; connect A to C; }`
\* returns a model with package "P", element A with package P and type-of
\* [B], elements B and C flagged external, and the relations
\* (A, B, "typed", "uses") and (A, C, "connects", "connects").
C5_RoundTrip ==
    (phase = "returned" /\ text = FragmentRoundTrip) =>
        /\ NameP \in DOMAIN model.package_index
        /\ {NameA, NameB, NameC} \subseteq DOMAIN model.node_index
        /\ Element(NameA).package = Some(NameP)
        /\ Element(NameA).type_of = <<NameB>>
        /\ Element(NameB).external
        /\ Element(NameC).external
        /\ HasRelation(NameA, NameB, RelTyped, LabelUses)
        /\ HasRelation(NameA, NameC, RelConnects, RelConnects)

\* What parse does return for that text: the package declaration line is
\* consumed whole, so the model holds package P and nothing else.
C5_OnlyPackage ==
    (phase = "returned" /\ text = FragmentRoundTrip) =>
        /\ Len(model.packages) = 1
        /\ model.packages[1].name = NameP
        /\ model.nodes = << >>
        /\ model.relations = << >>

C5_Witness ==
    phase = "returned" /\ text = FragmentRoundTrip /\ model.nodes = << >>

\* The closing braces a line carries beyond the ones it opens.
Closing(line) == count(line, "}") - count(line, "{")

\* The top two scope records are both closed by the braces of the current
\* line, which is not a package declaration.
ClosesBoth ==
    /\ InLoop /\ ~IsPackageLine
    /\ Len(package_stack) >= 2
    /\ Closing(raw_line) >=
           package_stack[Len(package_stack)].brace_balance
           + package_stack[Len(package_stack) - 1].brace_balance

IsPrefix(s, t) == Len(s) <= Len(t) /\ s = SubSeq(t, 1, Len(s))

\* C6: a line that carries the closing braces of both the inner and the
\* outer package pops both scope records in the one step; and a definition
\* on any line is attributed to the package on top of the stack as the
\* earlier lines left it, to no package when the stack is empty, so after
\* `package O {`, `package I {`, `} }` never to O or I, as long as no later
\* line declares a package of one of these names again.
C6_Step ==
    /\ ClosesBoth /\ pc' = pc + 1 =>
           IsPrefix(package_stack',
                    SubSeq(package_stack, 1, Len(package_stack) - 2))
    /\ Len(added') = Len(added) + 1 /\ phase = "parsing" =>
           /\ added'[Len(added')].package = current_package
           /\ (/\ pc > 3
               /\ lines[1] = <<"p","a","c","k","a","g","e"," ","O"," ","{">>
               /\ lines[2] = <<"p","a","c","k","a","g","e"," ","I"," ","{">>
               /\ lines[3] = FragmentCloseBoth
               /\ \A k \in 4..(pc - 1) :
                      package_match(strip(lines[k], Whitespace))
                          \notin {Some(NameO), Some(NameI)}) =>
                  added'[Len(added')].package \notin {Some(NameO), Some(NameI)}

C6_NestedClose == [][C6_Step]_vars

\* C6's case: O and I were opened, one line closed both, and the element
\* defined on the line after it has no package.
C6_Witness ==
    /\ last.op = "definition"
    /\ last.arg = 4
    /\ lines[3] = FragmentCloseBoth
    /\ {NameO, NameI} \subseteq DOMAIN model.package_index
    /\ package_stack = << >>
    /\ last.result.package = None

\* The arguments and the outcome of the render call, once it was made.
fmt == last.arg[1]

markup == last.result.markup

Pieces(tag) == SelectSeq(markup, LAMBDA piece : piece.tag = tag)

HasClass(piece, class) == "class" \in DOMAIN piece /\ piece.class = class

\* The elements render draws: those whose kind is not "package".
Drawn == SelectSeq(model.nodes, LAMBDA node : node.kind # KindPackage)

DrawnNames == {Drawn[i].name : i \in 1..Len(Drawn)}

\* The relations whose source and target are both drawn.
Placed ==
    SelectSeq(model.relations,
              LAMBDA relation : relation.source \in DrawnNames
                                /\ relation.target \in DrawnNames)

CardOf(name) ==
    CHOOSE card \in {Pieces("g")[i] : i \in 1..Len(Pieces("g"))} :
        card.title = html_escape(name)

\* C7: a successful render holds exactly one card for each element whose
\* kind is not "package", in the order of the elements, and exactly one
\* edge for each relation whose source and target both have a card, in the
\* order of the relations, running between the centres of those two cards;
\* for a model parse returned the edges are as many as the relations and
\* the cards as many as the elements.
C7_CardsAndEdges ==
    (rendered /\ last.result.raised = "" /\ Drawn # << >>) =>
        /\ Len(Pieces("g")) = Len(Drawn)
        /\ \A i \in 1..Len(Drawn) :
              Pieces("g")[i].title = html_escape(Drawn[i].name)
        /\ Len(Pieces("path")) = Len(Placed)
        /\ \A i \in 1..Len(Placed) :
              /\ Pieces("path")[i].x1 = CardOf(Placed[i].source).x + node_width \div 2
              /\ Pieces("path")[i].y1 = CardOf(Placed[i].source).y + node_height \div 2
              /\ Pieces("path")[i].x2 = CardOf(Placed[i].target).x + node_width \div 2
              /\ Pieces("path")[i].y2 = CardOf(Placed[i].target).y + node_height \div 2
        /\ phase = "returned" =>
              /\ Len(Pieces("path")) = Len(model.relations)
              /\ Len(Pieces("g")) = Len(model.nodes)

\* C7's case: a model parse returned, with elements in a package and
\* outside any and more than one relation, has been rendered.
C7_Witness ==
    /\ rendered /\ phase = "returned" /\ last.result.raised = ""
    /\ Len(model.relations) >= 2
    /\ Len(Pieces("path")) = Len(model.relations)
    /\ \E i, j \in 1..Len(model.nodes) :
          Truthy(model.nodes[i].package) /\ ~Truthy(model.nodes[j].package)

\* C8: a render call raises the unsupported-format error exactly when the
\* format is neither "svg" nor "html"; a call that raises returns no markup
\* at all, one that does not raise returns some; and the call leaves the
\* model as it was.
C8_Step ==
    (~rendered /\ rendered') =>
        /\ last'.result.raised = "ValueError" <=> last'.arg[1] \notin {"svg", "html"}
        /\ last'.result.raised \in {"", "ValueError"}
        /\ last'.result.raised = "ValueError" => last'.result.markup = << >>
        /\ last'.result.raised = "" => last'.result.markup # << >>
        /\ model' = model

C8_UnsupportedFormat == [][C8_Step]_vars

\* C8's case: render was asked for a format it does not know, on a model
\* that holds elements.
C8_Witness ==
    /\ rendered
    /\ fmt \notin {"svg", "html"}
    /\ last.result.raised = "ValueError"
    /\ Drawn # << >>

\* C9: render with a supported format of a model without any element of a
\* kind other than "package" does not raise and returns the 480 by 200
\* canvas with the notice text, and none of what the column layout
\* produces: no marker definitions, package label, edge or card.
C9_EmptyCanvas ==
    (rendered /\ fmt \in {"svg", "html"} /\ Drawn = << >>) =>
        /\ last.result.raised = ""
        /\ Len(Pieces("svg")) = 1
        /\ Pieces("svg")[1].width = 480 /\ Pieces("svg")[1].height = 200
        /\ \E i \in 1..Len(markup) : HasClass(markup[i], "sysmlv2-empty")
        /\ \A i \in 1..Len(markup) :
              /\ markup[i].tag \notin {"defs", "g", "path"}
              /\ ~HasClass(markup[i], "sysmlv2-package")

\* C9's case: the model rendered holds a package, a relation and an
\* element, of kind "package".
C9_Witness ==
    /\ rendered /\ fmt \in {"svg", "html"} /\ Drawn = << >>
    /\ model.nodes # << >>
    /\ model.relations # << >>
    /\ model.packages # << >>

Space == <<" ">>

\* The line `keyword S link D`.
LinkLine(keyword, S, link, D) == keyword \o Space \o S \o Space \o link \o Space \o D

\* The lines parse has gone through.
Processed == IF phase = "api" THEN {} ELSE {k \in 1..Len(lines) : k < pc}

\* C10: for every line parse has processed that reads `connect S to D` or
\* `connect S with D` the model holds the relation (S, D, "connects",
\* "connects"), and for every line `from S to D` the relation
\* (S, D, "flows", "flows").
C10_LinkLinesRecorded ==
    \A k \in Processed : \A S, D \in {NameA, NameC} :
        LET line == strip(lines[k], Whitespace)
        IN  /\ line \in {LinkLine(KwConnect, S, KwTo, D),
                         LinkLine(KwConnect, S, KwWith, D)} =>
                   HasRelation(S, D, RelConnects, RelConnects)
            /\ line = LinkLine(KwFrom, S, KwTo, D) =>
                   HasRelation(S, D, RelFlows, RelFlows)

\* What parse does with such a line: _parse_definition takes its first word
\* for the kind and its second for the name of an element, and no relation
\* is added.
C10_DefinitionStep ==
    (/\ InLoop
     /\ \E S, D \in {NameA, NameC} :
           strip(raw_line, Whitespace) \in
               {LinkLine(KwConnect, S, KwTo, D), LinkLine(KwFrom, S, KwTo, D)}
     /\ pc' = pc + 1) =>
        /\ Len(added') = Len(added) + 1
        /\ added'[Len(added')].kind \in {KwConnect, KwFrom}
        /\ added'[Len(added')].name = NameA
        /\ model'.relations = model.relations

C10_TakenAsDefinition == [][C10_DefinitionStep]_vars

C10_Witness ==
    /\ phase = "returned"
    /\ lines = << FragmentFlow >>
    /\ model.relations = << >>
    /\ Len(model.nodes) = 1
    /\ model.nodes[1].kind = KwFrom

ClassifierSymbols == {<<":">>, <<":", ">">>, <<":", ">", ">">>}

\* The position of the first entry of a list that is in a set; past the end
\* of the list when there is none.
FirstIndex(seq, S) ==
    IF \E i \in 1..Len(seq) : seq[i] \in S
    THEN CHOOSE i \in 1..Len(seq) :
             seq[i] \in S /\ \A j \in 1..(i - 1) : seq[j] \notin S
    ELSE Len(seq) + 1

\* The tokens of the current line after its first classifier symbol.
AfterClassifier ==
    LET tokens == _tokenize(code_line)
    IN  SubSeq(tokens, FirstIndex(tokens, ClassifierSymbols) + 1, Len(tokens))

\* The references of the record a definition step adds, and the targets of
\* the relations the step appends.
NewReferences ==
    LET node == added'[Len(added')]
    IN  {node.type_of[i] : i \in 1..Len(node.type_of)}
        \cup {node.specializes[i] : i \in 1..Len(node.specializes)}
        \cup {model'.relations[i].target :
                 i \in (Len(model.relations) + 1)..Len(model'.relations)}

CleanedBefore(tokens, stop) ==
    {_clean_identifier(tokens[i]) : i \in 1..(stop - 1)}

\* C11: the references of an element a definition line adds, and the
\* targets of the relations the line produces, all come from the tokens
\* between the first classifier symbol and the first token that is one of
\* "{", "}", "connect", "from", "to", "and": nothing at or after that token
\* is collected.
C11_Step ==
    (InLoop /\ Len(added') = Len(added) + 1) =>
        NewReferences \subseteq
            CleanedBefore(AfterClassifier,
                          FirstIndex(AfterClassifier, StructuralKeywords))

C11_StopsAtKeyword == [][C11_Step]_vars

\* What the code stops at: a token that, once cleaned, is one of "connect",
\* "from", "to", "and".  A token "{" or "}" is cleaned to the empty string
\* and skipped, and the collection goes on after it.
C11_WordStep ==
    (InLoop /\ Len(added') = Len(added) + 1) =>
        LET cleaned == [i \in 1..Len(AfterClassifier) |->
                           _clean_identifier(AfterClassifier[i])]
        IN  NewReferences =
                CleanedBefore(AfterClassifier,
                              FirstIndex(cleaned, {KwConnect, KwFrom, KwTo, KwAnd}))
                \ {<< >>}

C11_StopsAtWord == [][C11_WordStep]_vars

\* The line `part A : B { C` has been processed: C, after the brace, is in
\* the type-of list of A.
C11_Witness ==
    /\ last.op = "definition"
    /\ lines[last.arg] = FragmentBraceList
    /\ last.result.type_of = <<NameB, NameC>>

DeclaredNames == [i \in 1..Len(model.packages) |-> model.packages[i].name]

\* The column an element belongs to: its package, the global column when it
\* has none.
ColumnOf(node) ==
    IF node.package \in {None, Some(<< >>)} THEN GLOBAL_PACKAGE
    ELSE node.package[1]

DrawnColumns == [i \in 1..Len(Drawn) |-> ColumnOf(Drawn[i])]

\* The declared packages that own a drawn element, in declaration order,
\* then the other columns of the drawn elements, in order of appearance.
ExpectedColumns ==
    SelectSeq(DeclaredNames,
              LAMBDA pkg : \E i \in 1..Len(Drawn) : DrawnColumns[i] = pkg)
    \o FirstOccurrences(
           SelectSeq(DrawnColumns,
                     LAMBDA column : \A j \in 1..Len(DeclaredNames) :
                                        DeclaredNames[j] # column))

ColumnX(c) == margin_x + (c - 1) * (node_width + gap_x)

\* The package labels of the markup, one for each column, left to right.
ColumnLabels == SelectSeq(markup, LAMBDA piece : HasClass(piece, "sysmlv2-package"))

\* C12: the columns a render lays out are the declared packages owning a
\* drawn element, in declaration order, then every other package value of
\* a drawn element (the global column for no package) in order of first
\* appearance; no column name comes twice, every drawn element's column is
\* in the list, and its card stands in that column.
C12_ColumnOrder ==
    (rendered /\ last.result.raised = "" /\ Drawn # << >>) =>
        /\ Len(ColumnLabels) = Len(ExpectedColumns)
        /\ \A c \in 1..Len(ExpectedColumns) :
              /\ ColumnLabels[c].label =
                     html_escape(IF ExpectedColumns[c] = GLOBAL_PACKAGE
                                 THEN LabelGlobal ELSE ExpectedColumns[c])
              /\ ColumnLabels[c].x = ColumnX(c) + node_width \div 2
              /\ \A d \in 1..Len(ExpectedColumns) :
                    ExpectedColumns[c] = ExpectedColumns[d] => c = d
        /\ \A i \in 1..Len(Drawn) :
              \E c \in 1..Len(ExpectedColumns) :
                  /\ ExpectedColumns[c] = DrawnColumns[i]
                  /\ CardOf(Drawn[i].name).x = ColumnX(c)

\* C12's case: the first element drawn is in an undeclared package, a later
\* one in a declared package, whose column comes first.
C12_Witness ==
    /\ rendered /\ last.result.raised = "" /\ Drawn # << >>
    /\ Len(ExpectedColumns) >= 2
    /\ DrawnColumns[1] # ExpectedColumns[1]
    /\ \E j \in 1..Len(DeclaredNames) : DeclaredNames[j] = ExpectedColumns[1]
    /\ \A j \in 1..Len(DeclaredNames) : DeclaredNames[j] # DrawnColumns[1]

\* The current line reaches the tokenizer and shlex raises on it.
TokenizationFails ==
    InLoop /\ ~IsSkipped /\ ~IsPackageLine /\ ~shlex_split(code_line).ok

\* C13: processing a line on which tokenization fails leaves the model as
\* it was: no package, no element, no relation is added.
C13_Step == (TokenizationFails /\ pc' = pc + 1) => model' = model

C13_LineIgnored == [][C13_Step]_vars

\* What processing such a line does: no package and no element is added,
\* but the line goes through the fallback extraction, so relations can be
\* appended to the ones there were.
C13_FallbackStep ==
    (TokenizationFails /\ pc' = pc + 1) =>
        /\ model'.packages = model.packages
        /\ model'.nodes = model.nodes
        /\ added' = added
        /\ IsPrefix(model.relations, model'.relations)
        /\ last'.op = "relations"

C13_StillExtracted == [][C13_FallbackStep]_vars

\* The line `connect "A with C`, its quote never closed, has been
\* processed and the relation (A, C, "connects", "connects") is there.
C13_Witness ==
    /\ last.op = "relations"
    /\ lines[last.arg] = FragmentUnbalanced
    /\ model.relations # << >>
    /\ model.relations[Len(model.relations)] =
           SysMLRelation(NameA, NameC, RelConnects, Some(RelConnects))

\* C14: after every line, whatever its kind, each scope record on the stack
\* has a brace balance above zero.  A line leaves every record below the
\* top of the resulting stack exactly as it was, so only a record that is
\* on top is ever changed; it pushes at most one record, and only as a
\* package declaration, under the declared name; and the records it
\* removes are the topmost ones, the stack that remains being the bottom
\* part of the stack before.
C14_Step ==
    (InLoop /\ pc' = pc + 1) =>
        /\ \A i \in 1..Len(package_stack') : package_stack'[i].brace_balance > 0
        /\ Len(package_stack') <= Len(package_stack) + 1
        /\ \A i \in 1..Len(package_stack') :
              /\ i <= Len(package_stack) => package_stack'[i].name = package_stack[i].name
              /\ i < Len(package_stack') => package_stack'[i] = package_stack[i]
        /\ Len(package_stack') = Len(package_stack) + 1 =>
              /\ last'.op = "package"
              /\ package_stack'[Len(package_stack')].name = last'.result

C14_ScopeStack == [][C14_Step]_vars

\* C14's case: one line has closed the two topmost scopes of a stack of
\* three, the second with the closing brace the first left over, and the
\* record below them is as it was.
C14_Witness ==
    /\ phase = "parsing" /\ pc > 1
    /\ Len(package_stack) = 1
    /\ package_stack[1].brace_balance = 1
    /\ lines[pc - 1] = FragmentCloseBoth
    /\ Len(model.packages) = 3

Cards == Pieces("g")

Canvas == Pieces("svg")[1]

Distance(a, b) == IF a >= b THEN a - b ELSE b - a

\* C15: in a render with elements to draw, every card's cell lies inside
\* the canvas, with the left and top margin before it and the right and
\* bottom margin after it, and two cards never overlap: they are in
\* different columns, at least a cell width and a gap apart in x, or in the
\* same column, at least a cell height and a gap apart in y.
C15_CellsInCanvas ==
    (rendered /\ last.result.raised = "" /\ Drawn # << >>) =>
        /\ \A i \in 1..Len(Cards) :
              /\ Cards[i].x >= margin_x
              /\ Cards[i].y >= margin_y
              /\ Cards[i].x + Cards[i].width + margin_x <= Canvas.width
              /\ Cards[i].y + Cards[i].height + margin_y <= Canvas.height
              /\ Cards[i].width = node_width /\ Cards[i].height = node_height
        /\ \A i, j \in 1..Len(Cards) :
              i # j =>
                  \/ Distance(Cards[i].x, Cards[j].x) >= node_width + gap_x
                  \/ /\ Cards[i].x = Cards[j].x
                     /\ Distance(Cards[i].y, Cards[j].y) >= node_height + gap_y

\* C15's case: a render with two columns, one of them with two rows.
C15_Witness ==
    /\ rendered /\ last.result.raised = ""
    /\ \E i, j, k \in 1..Len(Cards) :
          /\ Cards[i].x = Cards[j].x /\ Cards[i].y < Cards[j].y
          /\ Cards[k].x > Cards[i].x

====
